---------------------------- MODULE Spec2Model ----------------------------
(***************************************************************************)
(* Ontology alignment pipeline of midas-ontology-graph-rag:                *)
(*   load_ontology -> build_ontology_graph -> create_ontology_documents    *)
(*   -> create_chunk_documents -> retrieval -> identify_matched_concepts   *)
(*   -> calculate_ontology_depth -> calculate_relevance_scores             *)
(*   -> calculate_terminology_scores -> total / generate_verdict.          *)
(* Strings are sequences of one-character strings; scores, which the code  *)
(* keeps as floats, are exact rationals <<numerator, denominator>>.        *)
(***************************************************************************)
EXTENDS Integers, Sequences, FiniteSets, TLC

VARIABLES
    pc,                 \* position in main()
    classes,            \* load_ontology: subjects typed owl:Class
    properties,         \* load_ontology: subjects typed owl:*Property
    g,                  \* the rdflib triple store (a set of triples)
    G,                  \* the networkx DiGraph built from g
    label_map,          \* create_ontology_documents: node id -> label
    chunks,             \* split_paper_into_chunks: list of chunk texts
    ontology_docs,      \* create_ontology_documents: Class/Property documents
    chunk_docs,         \* create_chunk_documents: PaperChunk documents
    papers,             \* paper records handed to create_paper_documents
    paper_docs,         \* create_paper_documents: research_paper documents
    results,            \* ids of the documents the retriever returned
    direct_label_hits,  \* identify_matched_concepts
    synonym_hits,       \* identify_matched_concepts
    matched_classes,    \* main: list of matched Class ids
    depth_map,          \* calculate_ontology_depth
    roots,              \* calculate_ontology_depth
    scores,             \* the sub-scores, total and verdict of the run
    queue,              \* calculate_ontology_depth: the work queue of the BFS
    pending,            \* calculate_ontology_depth: the roots not yet expanded
    calls,              \* number of add_bidirectional_edges applications so far
    hybrid              \* retrieve_hybrid: its arguments and the lists it returns

vars == <<pc, classes, properties, g, G, label_map, chunks, ontology_docs,
          chunk_docs,
          papers, paper_docs, results, direct_label_hits, synonym_hits,
          matched_classes, depth_map, roots, scores, queue, pending, calls,
          hybrid>>

-----------------------------------------------------------------------------
(* Bounds of the model.                                                    *)

\* largest number of subClassOf/equivalentClass/domain/range triples in g
MaxTriples == 3
\* largest number of label/altLabel/hasExactSynonym triples in g
MaxLitTriples == 2
\* largest number of chunks of the paper abstract
MaxChunks == 2
\* largest number of paper records handed to create_paper_documents
MaxPapers == 2
\* largest number of add_bidirectional_edges applications
MaxCalls == 2
\* largest number of documents the graph retriever returns
MaxResults == 2

\* identifiers (IRIs) that may be declared owl:Class
ClassIds == {"A", "B", "C", "D", "E", "F"}
\* identifiers that may be declared an owl property
PropIds == {"P"}
\* an identifier that is never declared: an out-of-ontology IRI
ExternalIds == {"X"}
Ids == ClassIds \cup PropIds \cup ExternalIds

\* the order in which the sets and the triple store are iterated
IdOrder == <<"A", "B", "C", "D", "E", "F", "P", "X">>

-----------------------------------------------------------------------------
(* Strings.                                                                *)

Lower(ch) ==
    CASE ch = "A" -> "a" [] ch = "B" -> "b" [] ch = "C" -> "c"
      [] ch = "D" -> "d" [] ch = "E" -> "e" [] ch = "F" -> "f"
      [] ch = "P" -> "p" [] ch = "X" -> "x" [] OTHER -> ch

\* str.lower()
LowerStr(s) == [i \in 1..Len(s) |-> Lower(s[i])]

\* \w of the re module
IsWordChar(ch) == ch # " "

\* the last path fragment of an identifier: cls.split('/')[-1].split('#')[-1]
Fragment(id) == <<id>>

\* literals the ontology may use as labels and synonyms; "" is a legal literal
Literals == {<<>>, <<"a">>, <<"z">>}
LitOrder == <<(<<>>), (<<"a">>), (<<"z">>)>>

\* \b at position i of text (between text[i] and text[i+1]; 0 and Len are the ends)
Boundary(text, i) ==
    LET before == i >= 1 /\ IsWordChar(text[i])
        after == i < Len(text) /\ IsWordChar(text[i + 1])
    IN before # after

\* re.search(rf"\b{re.escape(word)}\b", text) is not None
WholeWordSearch(word, text) ==
    \E i \in 0..(Len(text) - Len(word)) :
        /\ \A k \in 1..Len(word) : text[i + k] = word[k]
        /\ Boundary(text, i)
        /\ Boundary(text, i + Len(word))

-----------------------------------------------------------------------------
(* Sequences.                                                              *)

Range(s) == {s[i] : i \in 1..Len(s)}

\* the members of S in iteration order
SeqOf(S, order) == SelectSeq(order, LAMBDA x : x \in S)

RECURSIVE Flatten(_)
Flatten(ss) == IF ss = <<>> THEN <<>> ELSE Head(ss) \o Flatten(Tail(ss))

NoDuplicates(s) == \A i, j \in 1..Len(s) : i # j => s[i] # s[j]


-----------------------------------------------------------------------------
(* The triple store.  g.rel holds the triples whose object is an           *)
(* identifier, g.lit those whose object is a literal.                      *)

RelTriples ==
    [s : ClassIds, p : {"subClassOf", "equivalentClass"}, o : Ids]
        \cup [s : PropIds, p : {"domain", "range"}, o : Ids]

LitTriples ==
    [s : ClassIds \cup PropIds, p : {"label", "altLabel", "hasExactSynonym"},
     o : Literals]

\* [str(o) for _, _, o in g.triples((subject, predicate, None))], o an identifier
Objects(store, subject, predicate) ==
    SeqOf({t.o : t \in {u \in store.rel : u.s = subject /\ u.p = predicate}},
          IdOrder)

\* the same for a predicate whose objects are literals
LiteralsOf(store, subject, predicate) ==
    SeqOf({t.o : t \in {u \in store.lit : u.s = subject /\ u.p = predicate}},
          LitOrder)

\* get_literal: the first object of (subject, predicate, None), or None (<<>>)
get_literal(store, subject, predicate) ==
    LET found == LiteralsOf(store, subject, predicate)
    IN IF found = <<>> THEN <<>> ELSE Head(found)

-----------------------------------------------------------------------------
(* build_ontology_graph.  A node attribute that the code reads with        *)
(* data.get(key, []) is the empty sequence when the key is missing.        *)

NoLists == [n \in Ids |-> <<>>]

EmptyGraph ==
    [nodes |-> <<>>, type |-> [n \in Ids |-> "none"],
     label |-> [n \in Ids |-> <<>>], synonyms |-> NoLists,
     parents |-> NoLists, children |-> NoLists, equivalentClasses |-> NoLists,
     domain |-> NoLists, range |-> NoLists, domainOf |-> NoLists,
     rangeOf |-> NoLists, edges |-> {}]

\* G.add_node(id, type=..., label=..., synonyms=...)
add_node(Gr, id, type, label, synonyms) ==
    [Gr EXCEPT !.nodes = IF id \in Range(@) THEN @ ELSE Append(@, id),
               !.type[id] = type, !.label[id] = label,
               !.synonyms[id] = synonyms]

\* G.add_edge(u, v, predicate=p): a DiGraph keeps one edge per ordered pair
add_edge(E, u, v, p) ==
    {e \in E : ~(e[1] = u /\ e[2] = v)} \cup {<<u, v, p>>}

\* label = get_literal(g, cls, RDFS.label) or cls.split('/')[-1].split('#')[-1]
NodeLabel(store, id) ==
    LET lit == get_literal(store, id, "label")
    IN IF lit # <<>> THEN lit ELSE Fragment(id)

\* synonyms = [altLabel literals] + [hasExactSynonym literals]
ClassSynonyms(store, cls) ==
    LiteralsOf(store, cls, "altLabel") \o LiteralsOf(store, cls, "hasExactSynonym")

RECURSIVE AddClassNodes(_, _, _)
AddClassNodes(Gr, store, todo) ==
    IF todo = <<>> THEN Gr
    ELSE AddClassNodes(add_node(Gr, Head(todo), "Class",
                                NodeLabel(store, Head(todo)),
                                ClassSynonyms(store, Head(todo))),
                       store, Tail(todo))

RECURSIVE AddPropertyNodes(_, _, _)
AddPropertyNodes(Gr, store, todo) ==
    IF todo = <<>> THEN Gr
    ELSE AddPropertyNodes(
             [Gr EXCEPT !.nodes = IF Head(todo) \in Range(@) THEN @
                                  ELSE Append(@, Head(todo)),
                        !.type[Head(todo)] = "Property",
                        !.label[Head(todo)] = NodeLabel(store, Head(todo))],
             store, Tail(todo))

\* a build that links without looking the object up
NodeExistsUnchecked(Gr, id) == TRUE

\* the test `str(x) in G.nodes` that guards every relationship
NodeExists(Gr, id) == id \in Range(Gr.nodes)

\* one pass of the body of a relationship loop: two list appends, two edges
Link(Gr, a, b, listOfA, listOfB, pred, inverse) ==
    IF NodeExists(Gr, b)
    THEN LET G1 == [Gr EXCEPT ![listOfA][a] = Append(@, b)]
             G2 == [G1 EXCEPT ![listOfB][b] = Append(@, a)]
         IN [G2 EXCEPT !.edges = add_edge(add_edge(@, a, b, pred), b, a, inverse)]
    ELSE Gr

\* the (subject, object) pairs a loop `for s in subjects: for o in triples` visits
Visits(store, subjects, predicate) ==
    Flatten([i \in 1..Len(subjects) |->
        LET objs == Objects(store, subjects[i], predicate)
        IN [k \in 1..Len(objs) |-> <<subjects[i], objs[k]>>]])

RECURSIVE LinkAll(_, _, _, _, _, _)
LinkAll(Gr, visits, listOfA, listOfB, pred, inverse) ==
    IF visits = <<>> THEN Gr
    ELSE LinkAll(Link(Gr, Head(visits)[1], Head(visits)[2],
                      listOfA, listOfB, pred, inverse),
                 Tail(visits), listOfA, listOfB, pred, inverse)

\* add_class_relationships: all subClassOf triples, then all equivalentClass
add_class_relationships(store, Gr, cls) ==
    LET G1 == LinkAll(Gr, Visits(store, cls, "subClassOf"),
                      "parents", "children", "subClassOf", "hasSubClass")
    IN LinkAll(G1, Visits(store, cls, "equivalentClass"),
               "equivalentClasses", "equivalentClasses",
               "equivalentClass", "equivalentClass")

\* add_property_relationships: per property, its domain then its range triples
RECURSIVE add_property_relationships(_, _, _)
add_property_relationships(store, Gr, props) ==
    IF props = <<>> THEN Gr
    ELSE LET one == <<Head(props)>>
             G1 == LinkAll(Gr, Visits(store, one, "domain"),
                           "domain", "domainOf", "domain", "domainOf")
             G2 == LinkAll(G1, Visits(store, one, "range"),
                           "range", "rangeOf", "range", "rangeOf")
         IN add_property_relationships(store, G2, Tail(props))

build_ontology_graph(store, cls, props) ==
    LET clsSeq == SeqOf(cls, IdOrder)
        propSeq == SeqOf(props, IdOrder)
        G1 == AddClassNodes(EmptyGraph, store, clsSeq)
        G2 == AddPropertyNodes(G1, store, propSeq)
        G3 == add_class_relationships(store, G2, clsSeq)
    IN add_property_relationships(store, G3, propSeq)

-----------------------------------------------------------------------------
(* create_ontology_documents and calculate_ontology_depth.                 *)

\* label_map: node id -> label, for every Class and Property node
create_label_map(Gr) == [n \in Range(Gr.nodes) |-> Gr.label[n]]

\* roots = [cid for cid in label_map if type == "Class" and not parents]
FindRoots(Gr, lm) ==
    SelectSeq(Gr.nodes, LAMBDA cid :
        cid \in DOMAIN lm /\ Gr.type[cid] = "Class" /\ Gr.parents[cid] = <<>>)

\* depth_map[key] = value
SetDepth(dm, key, value) ==
    [x \in DOMAIN dm \cup {key} |-> IF x = key THEN value ELSE dm[x]]

\* a plain visited-set search, which never lowers a stored depth
RelaxesUnseenOnly(dm, child, cur_depth) == child \notin DOMAIN dm

\* the test that relaxes a child: not in depth_map, or a larger depth stored
Relaxes(dm, child, cur_depth) ==
    child \notin DOMAIN dm \/ dm[child] > cur_depth + 1

\* the loop over the children of cur; st = [dm, queue]
RECURSIVE RelaxChildren(_, _, _)
RelaxChildren(st, kids, cur_depth) ==
    IF kids = <<>> THEN st
    ELSE LET child == Head(kids)
         IN IF Relaxes(st.dm, child, cur_depth)
            THEN RelaxChildren([dm |-> SetDepth(st.dm, child, cur_depth + 1),
                                queue |-> Append(st.queue, child)],
                               Tail(kids), cur_depth)
            ELSE RelaxChildren(st, Tail(kids), cur_depth)

\* while queue: cur = queue.pop(0) ...
RECURSIVE DrainQueue(_, _)
DrainQueue(Gr, st) ==
    IF st.queue = <<>> THEN st.dm
    ELSE LET cur == Head(st.queue)
         IN DrainQueue(Gr, RelaxChildren([dm |-> st.dm, queue |-> Tail(st.queue)],
                                         Gr.children[cur], st.dm[cur]))

\* the search of each root started on an empty depth_map of its own
RECURSIVE DepthFromRootsRestarting(_, _, _)
DepthFromRootsRestarting(Gr, rts, dm) ==
    IF rts = <<>> THEN dm
    ELSE DepthFromRootsRestarting(Gr, Tail(rts),
             DrainQueue(Gr, [dm |-> SetDepth(<<>>, Head(rts), 0),
                             queue |-> <<Head(rts)>>]))

\* for root in roots: depth_map[root] = 0; queue = [root]; drain
RECURSIVE DepthFromRoots(_, _, _)
DepthFromRoots(Gr, rts, dm) ==
    IF rts = <<>> THEN dm
    ELSE DepthFromRoots(Gr, Tail(rts),
             DrainQueue(Gr, [dm |-> SetDepth(dm, Head(rts), 0),
                             queue |-> <<Head(rts)>>]))

calculate_ontology_depth(Gr, lm) ==
    DepthFromRoots(Gr, FindRoots(Gr, lm), <<>>)


-----------------------------------------------------------------------------
(* Exact rationals <<numerator, denominator>>, denominator > 0, for the    *)
(* floats of scoring.py.                                                   *)

Rat(n) == <<n, 1>>
RAdd(a, b) == <<a[1] * b[2] + b[1] * a[2], a[2] * b[2]>>
RLe(a, b) == a[1] * b[2] <= b[1] * a[2]
RLt(a, b) == a[1] * b[2] < b[1] * a[2]
REq(a, b) == a[1] * b[2] = b[1] * a[2]
RMin(a, b) == IF RLe(a, b) THEN a ELSE b
RMax(a, b) == IF RLe(a, b) THEN b ELSE a

Min(a, b) == IF a <= b THEN a ELSE b

RECURSIVE SumSeq(_)
SumSeq(s) == IF s = <<>> THEN 0 ELSE Head(s) + SumSeq(Tail(s))

-----------------------------------------------------------------------------
(* calculate_relevance_scores.                                             *)

RScale(a, k) == <<a[1] * k, a[2]>>

\* a coverage ratio computed with integer division
CoverageFloored(matched) == Rat((Min(Len(matched), 5) \div 5) * 30)

\* a coverage ratio that is not capped at five matches
CoverageUncapped(matched) == RScale(<<Len(matched), 5>>, 30)

\* 1. coverage_score = min(min(num_matched, 5) / 5.0, 1.0) * 30.0
CoverageScore(matched) ==
    RScale(RMin(<<Min(Len(matched), 5), 5>>, Rat(1)), 30)

\* depths = [depth_map.get(cid, 0) for cid in matched_classes if cid in depth_map]
KnownDepths(matched, dm) ==
    LET known == SelectSeq(matched, LAMBDA cid : cid \in DOMAIN dm)
    IN [i \in 1..Len(known) |-> dm[known[i]]]

\* 2. hierarchy_score = min(avg_depth / 3.0, 1.0) * 20.0, or 0.0 without depths
HierarchyScore(matched, dm) ==
    LET depths == KnownDepths(matched, dm)
    IN IF depths # <<>>
       THEN RScale(RMin(<<SumSeq(depths), 3 * Len(depths)>>, Rat(1)), 20)
       ELSE Rat(0)

\* a loop that counts every endpoint that aligns (no break)
RECURSIVE EndpointLoopNoBreak(_, _, _)
EndpointLoopNoBreak(endpoints, matched, cid) ==
    IF endpoints = <<>> THEN 0
    ELSE (IF Head(endpoints) \in Range(matched) /\ Head(endpoints) # cid
          THEN 1 ELSE 0) + EndpointLoopNoBreak(Tail(endpoints), matched, cid)

\* for c in prop_dom + prop_rng: if c in matched_classes and c != cid: += 1; break
RECURSIVE EndpointLoop(_, _, _)
EndpointLoop(endpoints, matched, cid) ==
    IF endpoints = <<>> THEN 0
    ELSE IF Head(endpoints) \in Range(matched) /\ Head(endpoints) # cid THEN 1
    ELSE EndpointLoop(Tail(endpoints), matched, cid)

\* for prop_id in domainOf + rangeOf: the additions of the endpoint loops
RECURSIVE PropertyLoop(_, _, _, _)
PropertyLoop(Gr, props, matched, cid) ==
    IF props = <<>> THEN 0
    ELSE EndpointLoop(Gr.domain[Head(props)] \o Gr.range[Head(props)], matched, cid)
             + PropertyLoop(Gr, Tail(props), matched, cid)

\* the loop over the properties the class is the domain of, rangeOf left out
ClassAlignmentsAsDomain(Gr, matched, cid) ==
    PropertyLoop(Gr, Gr.domainOf[cid], matched, cid)

\* what one matched class adds to aligned_relations
ClassAlignments(Gr, matched, cid) ==
    PropertyLoop(Gr, Gr.domainOf[cid] \o Gr.rangeOf[cid], matched, cid)

\* aligned_relations after the loop over matched_classes
AlignedRelations(Gr, matched) ==
    SumSeq([i \in 1..Len(matched) |-> ClassAlignments(Gr, matched, matched[i])])

\* 3. alignment_score
AlignmentScore(Gr, matched) ==
    IF Len(matched) > 1 /\ AlignedRelations(Gr, matched) > 0
    THEN RScale(<<Min(AlignedRelations(Gr, matched), 2), 2>>, 20)
    ELSE Rat(0)

\* a traversal that follows the subclass links downwards only
NeighboursBelow(Gr, n) == Gr.children[n]

\* the neighbours the traversal follows from n
Neighbours(Gr, n) == Gr.parents[n] \o Gr.children[n]

\* while stack: n = stack.pop(); visit n and push its unvisited matched neighbours
RECURSIVE Traverse(_, _, _, _)
Traverse(Gr, subg_nodes, stack, visited) ==
    IF stack = <<>> THEN visited
    ELSE LET n == stack[Len(stack)]
             rest == SubSeq(stack, 1, Len(stack) - 1)
         IN IF n \notin visited
            THEN Traverse(Gr, subg_nodes,
                     rest \o SelectSeq(Neighbours(Gr, n), LAMBDA neigh :
                                 neigh \in subg_nodes /\ neigh \notin visited \cup {n}),
                     visited \cup {n})
            ELSE Traverse(Gr, subg_nodes, rest, visited)

\* for node in subg_nodes: if node not in visited: comp_count += 1; traverse
RECURSIVE CountComponents(_, _, _, _)
CountComponents(Gr, subg_nodes, todo, st) ==
    IF todo = <<>> THEN st
    ELSE IF Head(todo) \notin st.visited
         THEN CountComponents(Gr, subg_nodes, Tail(todo),
                  [comp_count |-> st.comp_count + 1,
                   visited |-> Traverse(Gr, subg_nodes, <<Head(todo)>>, st.visited)])
         ELSE CountComponents(Gr, subg_nodes, Tail(todo), st)

\* the loop run with `for node in subg_nodes` yielding the nodes in `order`
ComponentsIn(Gr, matched, order) ==
    CountComponents(Gr, Range(matched), order, [comp_count |-> 0, visited |-> {}])

Components(Gr, matched) ==
    ComponentsIn(Gr, matched, SeqOf(Range(matched), IdOrder))

\* 4. coherence_score
\* the penalty taken per component rather than per component beyond the first
CoherenceFromEveryComponent(matched, comp_count) ==
    IF Len(matched) > 0
    THEN IF comp_count = 1 THEN Rat(15)
         ELSE RMax(Rat(0), <<15 * (Len(matched) - comp_count), Len(matched)>>)
    ELSE Rat(0)

CoherenceFrom(matched, comp_count) ==
    IF Len(matched) > 0
    THEN IF comp_count = 1 THEN Rat(15)
         ELSE RMax(Rat(0), <<15 * (Len(matched) - (comp_count - 1)), Len(matched)>>)
    ELSE Rat(0)

CoherenceScore(Gr, matched) ==
    CoherenceFrom(matched, Components(Gr, matched).comp_count)

\* `visited` is assigned only inside `if num_matched > 0`: the return statement
\* raises UnboundLocalError when matched_classes is empty
RelevanceRaises(matched) == Len(matched) = 0

calculate_relevance_scores(Gr, matched, dm) ==
    [coverage_score |-> CoverageScore(matched),
     hierarchy_score |-> HierarchyScore(matched, dm),
     alignment_score |-> AlignmentScore(Gr, matched),
     coherence_score |-> CoherenceScore(Gr, matched),
     visited |-> Components(Gr, matched).visited]

-----------------------------------------------------------------------------
(* calculate_terminology_scores, the total and generate_verdict.           *)

ConsistentCount(matched, direct, syn) ==
    Len(SelectSeq(matched, LAMBDA cid : cid \in direct \/ cid \in syn))

\* 5. consistency_score
ConsistencyScore(matched, direct, syn) ==
    IF Len(matched) > 0
    THEN RScale(<<ConsistentCount(matched, direct, syn), Len(matched)>>, 10)
    ELSE Rat(0)

\* 6. evidence_score
EvidenceScore(matched, direct, syn) ==
    LET consistent_count == ConsistentCount(matched, direct, syn)
    IN IF consistent_count > 0 /\ Len(matched) > 1 THEN Rat(5)
       ELSE IF consistent_count > 0 THEN Rat(4)
       ELSE IF Len(matched) > 0 THEN Rat(2)
       ELSE Rat(0)

\* total_score = min(sum([...six scores...]), 100.0)
TotalScore(sc) ==
    RMin(RAdd(RAdd(RAdd(RAdd(RAdd(sc.coverage_score, sc.hierarchy_score),
                             sc.alignment_score), sc.coherence_score),
                   sc.consistency_score), sc.evidence_score),
         Rat(100))

\* thresholds compared with > instead of >=
generate_verdict_strict(total_score) ==
    IF RLt(Rat(70), total_score) THEN "Relevant"
    ELSE IF RLt(Rat(30), total_score) THEN "Partially Relevant"
    ELSE "Not Relevant"

generate_verdict(total_score) ==
    IF RLe(Rat(70), total_score) THEN "Relevant"
    ELSE IF RLe(Rat(30), total_score) THEN "Partially Relevant"
    ELSE "Not Relevant"

NoScores ==
    [coverage_score |-> Rat(0), hierarchy_score |-> Rat(0),
     alignment_score |-> Rat(0), coherence_score |-> Rat(0), visited |-> {},
     consistency_score |-> Rat(0), evidence_score |-> Rat(0),
     consistent_count |-> 0, total_score |-> Rat(0), verdict |-> "none"]

-----------------------------------------------------------------------------
(* create_ontology_documents, create_chunk_documents,                      *)
(* create_paper_documents and identify_matched_concepts.                   *)

\* one Document per node: its id and the metadata the later steps read
create_ontology_documents(Gr) ==
    [i \in 1..Len(Gr.nodes) |->
        [id |-> Gr.nodes[i], type |-> Gr.type[Gr.nodes[i]],
         label |-> Gr.label[Gr.nodes[i]]]]

\* the label branch of the chunk matcher: `if label and re.search(...)`
ChunkLabelMatches(Gr, node_id, text_lower) ==
    Gr.label[node_id] # <<>>
        /\ WholeWordSearch(LowerStr(Gr.label[node_id]), text_lower)

\* the synonym loop of the chunk matcher
ChunkSynonymMatches(Gr, node_id, text_lower) ==
    \E k \in 1..Len(Gr.synonyms[node_id]) :
        WholeWordSearch(LowerStr(Gr.synonyms[node_id][k]), text_lower)

\* mentions of one chunk: the appended node ids, then list(set(mentions))
ChunkMentions(Gr, chunk_text) ==
    LET text_lower == LowerStr(chunk_text)
        appended == SelectSeq(Gr.nodes, LAMBDA node_id :
                        ChunkLabelMatches(Gr, node_id, text_lower)
                            \/ ChunkSynonymMatches(Gr, node_id, text_lower))
    IN SeqOf(Range(appended), IdOrder)

create_chunk_documents(chunk_texts, Gr) ==
    [i \in 1..Len(chunk_texts) |->
        [id |-> "paper_chunk_" \o ToString(i - 1), type |-> "PaperChunk",
         page_content |-> chunk_texts[i],
         mentions |-> ChunkMentions(Gr, chunk_texts[i])]]

\* a dict that keeps the first value stored under a key
DictKeepFirst(d, key, value) ==
    IF \E i \in 1..Len(d) : d[i][1] = key THEN d ELSE Append(d, <<key, value>>)

\* d[key] = value on an insertion-ordered dict, kept as a list of <<key, value>>
DictPut(d, key, value) ==
    IF \E i \in 1..Len(d) : d[i][1] = key
    THEN [i \in 1..Len(d) |-> IF d[i][1] = key THEN <<key, value>> ELSE d[i]]
    ELSE Append(d, <<key, value>>)

RECURSIVE PutAll(_, _, _)
PutAll(d, keys, value) ==
    IF keys = <<>> THEN d
    ELSE PutAll(IF Head(keys) # <<>> THEN DictPut(d, LowerStr(Head(keys)), value)
                ELSE d,
                Tail(keys), value)

\* label_to_id after the loop over the nodes
RECURSIVE BuildLabelToId(_, _, _)
BuildLabelToId(Gr, todo, d) ==
    IF todo = <<>> THEN d
    ELSE BuildLabelToId(Gr, Tail(todo), PutAll(d, <<Gr.label[Head(todo)]>>, Head(todo)))

\* synonym_to_id after the loop over the nodes
RECURSIVE BuildSynonymToId(_, _, _)
BuildSynonymToId(Gr, todo, d) ==
    IF todo = <<>> THEN d
    ELSE BuildSynonymToId(Gr, Tail(todo), PutAll(d, Gr.synonyms[Head(todo)], Head(todo)))

\* one lookup loop: append the id of every matching key, unless already there
RECURSIVE AppendMatches(_, _, _)
AppendMatches(mentioned, d, full_text) ==
    IF d = <<>> THEN mentioned
    ELSE AppendMatches(
             IF WholeWordSearch(Head(d)[1], full_text)
                    /\ Head(d)[2] \notin Range(mentioned)
             THEN Append(mentioned, Head(d)[2]) ELSE mentioned,
             Tail(d), full_text)

\* full_text = f"{title} {abstract}".lower()
FullText(paper) == LowerStr(paper.title \o <<" ">> \o paper.abstract)

PaperMentions(Gr, paper) ==
    LET label_to_id == BuildLabelToId(Gr, Gr.nodes, <<>>)
        synonym_to_id == BuildSynonymToId(Gr, Gr.nodes, <<>>)
    IN AppendMatches(AppendMatches(<<>>, label_to_id, FullText(paper)),
                     synonym_to_id, FullText(paper))

\* `if not title and not abstract: continue`
PaperSkipped(paper) == paper.title = <<>> /\ paper.abstract = <<>>

\* paper.get("id") or paper.get("paper_id", f"paper_{i}"); "" is a missing id
PaperId(paper, i) ==
    IF paper.id # "" THEN paper.id ELSE "paper_" \o ToString(i - 1)

RECURSIVE PaperDocuments(_, _, _)
PaperDocuments(Gr, paper_list, i) ==
    IF i > Len(paper_list) THEN <<>>
    ELSE (IF PaperSkipped(paper_list[i]) THEN <<>>
          ELSE <<[id |-> "paper_" \o PaperId(paper_list[i], i),
                  source |-> "paper",
                  type |-> "research_paper",
                  text |-> FullText(paper_list[i]),
                  mentions |-> PaperMentions(Gr, paper_list[i]),
                  mentioned_by |-> <<>>]>>)
         \o PaperDocuments(Gr, paper_list, i + 1)

\* the closing print divides by len(paper_docs): ZeroDivisionError on no documents
PaperDocumentsRaises(Gr, paper_list) == PaperDocuments(Gr, paper_list, 1) = <<>>

\* metadata.get(key, default)
Get(metadata, key, default) ==
    IF key \in DOMAIN metadata THEN metadata[key] ELSE default

\* metadata[key] = value
SetKey(metadata, key, value) ==
    [k \in DOMAIN metadata \cup {key} |->
        IF k = key THEN value ELSE metadata[k]]

\* concept_to_papers[cid] filled without the per-paper append: an id is kept once
PapersMentioningOnce(p_docs, cid) ==
    LET ids == [i \in 1..Len(p_docs) |-> p_docs[i].id]
        first(i) == \A j \in 1..(i - 1) :
                        ~(ids[j] = ids[i] /\ cid \in Range(p_docs[j].mentions))
    IN Flatten([i \in 1..Len(p_docs) |->
           IF cid \in Range(Get(p_docs[i], "mentions", <<>>)) /\ first(i)
           THEN <<ids[i]>> ELSE <<>>])

\* concept_to_papers.get(cid, []): the id of a paper once for every entry of
\* its mentions that is cid, in the order of the papers
PapersMentioning(p_docs, cid) ==
    Flatten([i \in 1..Len(p_docs) |->
        [k \in 1..Len(SelectSeq(Get(p_docs[i], "mentions", <<>>),
                                LAMBDA concept_id : concept_id = cid))
            |-> p_docs[i].id]])

\* an add_bidirectional_edges that extends the list a document already has
add_bidirectional_edges_appending(onto_docs, p_docs) ==
    [i \in 1..Len(onto_docs) |->
        SetKey(onto_docs[i], "mentioned_by",
               Get(onto_docs[i], "mentioned_by", <<>>)
                   \o PapersMentioning(p_docs, onto_docs[i].id))]

add_bidirectional_edges(onto_docs, p_docs) ==
    [i \in 1..Len(onto_docs) |->
        SetKey(onto_docs[i], "mentioned_by",
               PapersMentioning(p_docs, onto_docs[i].id))]

\* the first k members of a list: lst[:k]
Take(lst, k) == SubSeq(lst, 1, Min(k, Len(lst)))

\* [doc for doc in all_results if doc.metadata.get('source') == source][:k]
FromSource(all_results, source, k) ==
    Take(SelectSeq(all_results,
                   LAMBDA doc : Get(doc, "source", "MISSING") = source), k)

\* retrieve_hybrid after graph_retriever.invoke(query) returned all_results
retrieve_hybrid(all_results, k_papers, k_ontology) ==
    LET paper_results == FromSource(all_results, "paper", k_papers)
        ontology_results == FromSource(all_results, "ontology", k_ontology)
    IN [all_results |-> all_results, k_papers |-> k_papers,
        k_ontology |-> k_ontology, paper_results |-> paper_results,
        ontology_results |-> ontology_results,
        all_docs |-> paper_results \o ontology_results]

\* index of the last PaperChunk document whose mentions hold cid, 0 if none
LastMentioning(cid, docs) ==
    LET hits == {i \in 1..Len(docs) : cid \in Range(docs[i].mentions)}
    IN IF hits = {} THEN 0 ELSE CHOOSE i \in hits : \A j \in hits : i >= j

\* index of the first PaperChunk document whose mentions hold cid, 0 if none
FirstMentioning(cid, docs) ==
    LET hits == {i \in 1..Len(docs) : cid \in Range(docs[i].mentions)}
    IN IF hits = {} THEN 0 ELSE CHOOSE i \in hits : \A j \in hits : i <= j

\* `if label and re.search(rf"\b{re.escape(label)}\b", text)` on the lowered strings
LabelInChunk(label, chunk_doc) ==
    label # <<>> /\ WholeWordSearch(LowerStr(label), LowerStr(chunk_doc.page_content))

\* the documents of `results` that are Class or Property documents
RetrievedConcepts(onto_docs, res) ==
    {d \in Range(onto_docs) : d.id \in res /\ d.type \in {"Class", "Property"}}

identify_direct_label_hits(onto_docs, res, docs) ==
    {d.id : d \in {e \in RetrievedConcepts(onto_docs, res) :
        /\ FirstMentioning(e.id, docs) # 0
        /\ LabelInChunk(e.label, docs[FirstMentioning(e.id, docs)])}}

\* the classification loop without its `break`: every mentioning chunk votes
identify_synonym_hits_every_chunk(onto_docs, res, docs) ==
    {d.id : d \in {e \in RetrievedConcepts(onto_docs, res) :
        \E i \in 1..Len(docs) :
            /\ e.id \in Range(docs[i].mentions)
            /\ ~LabelInChunk(e.label, docs[i])}}

identify_synonym_hits(onto_docs, res, docs) ==
    {d.id : d \in {e \in RetrievedConcepts(onto_docs, res) :
        /\ FirstMentioning(e.id, docs) # 0
        /\ ~LabelInChunk(e.label, docs[FirstMentioning(e.id, docs)])}}

\* main: matched_classes = [cid for cid in all_matched_concepts if Class]
MatchedClasses(Gr, onto_docs, res, direct, syn) ==
    LET retrieved_concepts == {d.id : d \in RetrievedConcepts(onto_docs, res)}
        all_matched_concepts == retrieved_concepts \cup direct \cup syn
    IN SeqOf({cid \in all_matched_concepts : Gr.type[cid] = "Class"}, IdOrder)

-----------------------------------------------------------------------------
(* The inputs of a run.                                                    *)

\* the subsets of S with at most k members
RECURSIVE SubsetsUpTo(_, _)
SubsetsUpTo(S, k) ==
    IF k = 0 THEN {{}}
    ELSE LET smaller == SubsetsUpTo(S, k - 1)
         IN smaller \cup {sub \cup {x} : sub \in smaller, x \in S}

\* the sequences over S of length 1..k
RECURSIVE SeqsUpTo(_, _)
SeqsUpTo(S, k) ==
    IF k = 0 THEN {}
    ELSE [1..k -> S] \cup SeqsUpTo(S, k - 1)

\* chunk texts: split_paper_into_chunks yields non-empty, stripped chunks
Texts ==
    {<<"z">>, <<"a", "z">>, <<"A", " ", "z">>}

FourClasses == {"A", "B", "C", "D"}
ThreeClasses == {"A", "B", "C"}

\* the triples of RelTriples that a run declaring cls and props can hold when
\* every object is taken from objs
TriplesOver(cls, props, objs) ==
    {t \in RelTriples : t.s \in cls \cup props /\ t.o \in objs}

\* one paper record per chunk: no title, the chunk as its abstract
PapersOf(chunk_texts) ==
    [i \in 1..Len(chunk_texts) |->
        [id |-> "", title |-> <<>>, abstract |-> chunk_texts[i]]]

\* before retrieve_hybrid is called
NoHybrid ==
    [all_results |-> <<>>, k_papers |-> 0, k_ontology |-> 0,
     paper_results |-> <<>>, ontology_results |-> <<>>, all_docs |-> <<>>]

Start(store, cls, props, chunk_texts, paper_list) ==
    /\ pc = "loaded"
    /\ classes = cls
    /\ properties = props
    /\ g = store
    /\ G = EmptyGraph
    /\ label_map = <<>>
    /\ ontology_docs = <<>>
    /\ chunks = chunk_texts
    /\ chunk_docs = <<>>
    /\ papers = paper_list
    /\ paper_docs = <<>>
    /\ results = {}
    /\ direct_label_hits = {}
    /\ synonym_hits = {}
    /\ matched_classes = <<>>
    /\ depth_map = <<>>
    /\ roots = <<>>
    /\ scores = NoScores
    /\ queue = <<>>
    /\ pending = <<>>
    /\ calls = 0
    /\ hybrid = NoHybrid

-----------------------------------------------------------------------------
(* The operations.                                                         *)

\* G = build_ontology_graph(g, classes, properties)
BuildOntologyGraph ==
    /\ pc = "loaded"
    /\ G' = build_ontology_graph(g, classes, properties)
    /\ pc' = "built"
    /\ UNCHANGED <<classes, properties, g, label_map, chunks, ontology_docs,
                   chunk_docs, papers, paper_docs, results, direct_label_hits,
                   synonym_hits, matched_classes, depth_map, roots, scores>>
    /\ UNCHANGED <<queue, pending, calls, hybrid>>

\* ontology_docs, label_map = create_ontology_documents(G)
CreateOntologyDocuments ==
    /\ pc = "built"
    /\ ontology_docs' = create_ontology_documents(G)
    /\ label_map' = create_label_map(G)
    /\ pc' = "documents"
    /\ UNCHANGED <<classes, properties, g, G, chunks, chunk_docs, papers,
                   paper_docs, results, direct_label_hits, synonym_hits,
                   matched_classes, depth_map, roots, scores>>
    /\ UNCHANGED <<queue, pending, calls, hybrid>>

\* main.py: paper_chunk_docs = create_chunk_documents(chunks, G)
CreateChunkDocuments ==
    /\ pc = "documents"
    /\ chunk_docs' = create_chunk_documents(chunks, G)
    /\ pc' = "chunked"
    /\ UNCHANGED <<classes, properties, g, G, label_map, chunks, ontology_docs,
                   papers, paper_docs, results, direct_label_hits,
                   synonym_hits, matched_classes, depth_map, roots, scores>>
    /\ UNCHANGED <<queue, pending, calls, hybrid>>

\* extract_concepts.py: paper_docs = create_paper_documents(papers, G)
CreatePaperDocuments ==
    /\ pc = "documents"
    /\ IF PaperDocumentsRaises(G, papers)
       THEN pc' = "ZeroDivisionError" /\ UNCHANGED paper_docs
       ELSE pc' = "papers" /\ paper_docs' = PaperDocuments(G, papers, 1)
    /\ UNCHANGED <<classes, properties, g, G, label_map, chunks, ontology_docs,
                   chunk_docs, papers, results, direct_label_hits,
                   synonym_hits, matched_classes, depth_map, roots, scores>>
    /\ UNCHANGED <<queue, pending, calls, hybrid>>

\* results = retriever.invoke(query_text): the retriever is an external library
\* and may return any of the stored documents; only the Class and Property
\* documents among them are read afterwards
Retrieve ==
    /\ pc = "chunked"
    /\ \E res \in SUBSET Range(G.nodes) : results' = res
    /\ pc' = "retrieved"
    /\ UNCHANGED <<classes, properties, g, G, label_map, chunks, ontology_docs,
                   chunk_docs, papers, paper_docs, direct_label_hits,
                   synonym_hits, matched_classes, depth_map, roots, scores>>
    /\ UNCHANGED <<queue, pending, calls, hybrid>>

\* main.py lines 59-69: identify_matched_concepts, then matched_classes
IdentifyMatchedConcepts ==
    /\ pc = "retrieved"
    /\ direct_label_hits' = identify_direct_label_hits(ontology_docs, results, chunk_docs)
    /\ synonym_hits' = identify_synonym_hits(ontology_docs, results, chunk_docs)
    /\ matched_classes' = MatchedClasses(G, ontology_docs, results,
                                         direct_label_hits', synonym_hits')
    /\ pc' = "identified"
    /\ UNCHANGED <<classes, properties, g, G, label_map, chunks, ontology_docs,
                   chunk_docs, papers, paper_docs, results, depth_map, roots,
                   scores>>
    /\ UNCHANGED <<queue, pending, calls, hybrid>>

\* depth_map, roots = calculate_ontology_depth(G, label_map), called at `at`
CalculateOntologyDepthAt(at) ==
    /\ pc = at
    /\ roots' = FindRoots(G, label_map)
    /\ depth_map' = calculate_ontology_depth(G, label_map)
    /\ pc' = "depth"
    /\ UNCHANGED <<classes, properties, g, G, label_map, chunks, ontology_docs,
                   chunk_docs, papers, paper_docs, results, direct_label_hits,
                   synonym_hits, matched_classes, scores>>
    /\ UNCHANGED <<queue, pending, calls, hybrid>>

\* a depth computation that also records the depths on the graph
CalculateOntologyDepthOnGraph ==
    /\ pc = "identified"
    /\ roots' = FindRoots(G, label_map)
    /\ depth_map' = calculate_ontology_depth(G, label_map)
    /\ G' = SetKey(G, "depth", depth_map')
    /\ pc' = "depth"
    /\ UNCHANGED <<classes, properties, g, label_map, chunks, ontology_docs,
                   chunk_docs, papers, paper_docs, results, direct_label_hits,
                   synonym_hits, matched_classes, scores, queue, pending,
                   calls, hybrid>>

\* main.py calls it after the matched classes are known
CalculateOntologyDepth == CalculateOntologyDepthAt("identified")

\* a caller that resolves the depths as soon as the graph documents exist
ResolveDepth == CalculateOntologyDepthAt("documents")

\* main.py lines 75-77
CalculateRelevanceScores ==
    /\ pc = "depth"
    /\ IF RelevanceRaises(matched_classes)
       THEN pc' = "UnboundLocalError" /\ UNCHANGED scores
       ELSE /\ pc' = "relevance"
            /\ scores' = [k \in DOMAIN scores |->
                   LET r == calculate_relevance_scores(G, matched_classes, depth_map)
                   IN IF k \in DOMAIN r THEN r[k] ELSE scores[k]]
    /\ UNCHANGED <<classes, properties, g, G, label_map, chunks, ontology_docs,
                   chunk_docs, papers, paper_docs, results, direct_label_hits,
                   synonym_hits, matched_classes, depth_map, roots>>
    /\ UNCHANGED <<queue, pending, calls, hybrid>>

\* main.py lines 80-82
CalculateTerminologyScores ==
    /\ pc = "relevance"
    /\ scores' = [scores EXCEPT
           !.consistency_score =
               ConsistencyScore(matched_classes, direct_label_hits, synonym_hits),
           !.evidence_score =
               EvidenceScore(matched_classes, direct_label_hits, synonym_hits),
           !.consistent_count =
               ConsistentCount(matched_classes, direct_label_hits, synonym_hits)]
    /\ pc' = "terminology"
    /\ UNCHANGED <<classes, properties, g, G, label_map, chunks, ontology_docs,
                   chunk_docs, papers, paper_docs, results, direct_label_hits,
                   synonym_hits, matched_classes, depth_map, roots>>
    /\ UNCHANGED <<queue, pending, calls, hybrid>>

\* main.py lines 85-88
Verdict ==
    /\ pc = "terminology"
    /\ scores' = [scores EXCEPT
           !.total_score = TotalScore(scores),
           !.verdict = generate_verdict(TotalScore(scores))]
    /\ pc' = "done"
    /\ UNCHANGED <<classes, properties, g, G, label_map, chunks, ontology_docs,
                   chunk_docs, papers, paper_docs, results, direct_label_hits,
                   synonym_hits, matched_classes, depth_map, roots>>
    /\ UNCHANGED <<queue, pending, calls, hybrid>>

\* a loop that reads queue[0] and leaves it in the queue
Peek(q) == q

\* the queue after cur = queue.pop(0)
Dequeue(q) == Tail(q)

\* calculate_ontology_depth, statement by statement: lines 148-150
BeginDepth ==
    /\ pc = "documents"
    /\ roots' = FindRoots(G, label_map)
    /\ depth_map' = <<>>
    /\ pending' = roots'
    /\ queue' = <<>>
    /\ pc' = "for_root"
    /\ UNCHANGED <<classes, properties, g, G, label_map, chunks, ontology_docs,
                   chunk_docs, papers, paper_docs, results, direct_label_hits,
                   synonym_hits, matched_classes, scores, calls, hybrid>>

\* for root in roots: depth_map[root] = 0; queue = [root]
NextRoot ==
    /\ pc = "for_root"
    /\ pending # <<>>
    /\ depth_map' = SetDepth(depth_map, Head(pending), 0)
    /\ queue' = <<Head(pending)>>
    /\ pending' = Tail(pending)
    /\ pc' = "while_queue"
    /\ UNCHANGED <<classes, properties, g, G, label_map, chunks, ontology_docs,
                   chunk_docs, papers, paper_docs, results, direct_label_hits,
                   synonym_hits, matched_classes, roots, scores, calls, hybrid>>

\* one iteration of `while queue`: pop the head and relax its children
PopQueue ==
    /\ pc = "while_queue"
    /\ queue # <<>>
    /\ LET cur == Head(queue)
           st == RelaxChildren([dm |-> depth_map, queue |-> Dequeue(queue)],
                               G.children[cur], depth_map[cur])
       IN depth_map' = st.dm /\ queue' = st.queue
    /\ UNCHANGED <<pc, classes, properties, g, G, label_map, chunks,
                   ontology_docs, chunk_docs, papers, paper_docs, results,
                   direct_label_hits, synonym_hits, matched_classes, roots,
                   scores, pending, calls, hybrid>>

\* `while queue` finds the queue empty: back to the loop over the roots
QueueEmpty ==
    /\ pc = "while_queue"
    /\ queue = <<>>
    /\ pc' = "for_root"
    /\ UNCHANGED <<classes, properties, g, G, label_map, chunks, ontology_docs,
                   chunk_docs, papers, paper_docs, results, direct_label_hits,
                   synonym_hits, matched_classes, depth_map, roots, scores,
                   queue, pending, calls, hybrid>>

\* return depth_map, roots
ReturnDepth ==
    /\ pc = "for_root"
    /\ pending = <<>>
    /\ pc' = "depth"
    /\ UNCHANGED <<classes, properties, g, G, label_map, chunks, ontology_docs,
                   chunk_docs, papers, paper_docs, results, direct_label_hits,
                   synonym_hits, matched_classes, depth_map, roots, scores,
                   queue, pending, calls, hybrid>>

\* extract_concepts.py: ontology_docs = add_bidirectional_edges(ontology_docs,
\* paper_docs); a caller may apply it again to the documents it returned
AddBidirectionalEdges ==
    /\ pc \in {"papers", "linked"}
    /\ calls < MaxCalls
    /\ ontology_docs' = add_bidirectional_edges(ontology_docs, paper_docs)
    /\ calls' = calls + 1
    /\ pc' = "linked"
    /\ UNCHANGED <<classes, properties, g, G, label_map, chunks, chunk_docs,
                   papers, paper_docs, results, direct_label_hits,
                   synonym_hits, matched_classes, depth_map, roots, scores,
                   queue, pending, hybrid>>

\* the lists of at most n different positions of a list of m documents
Selections(m, n) ==
    {sel \in UNION {[1..len -> 1..m] : len \in 0..n} : NoDuplicates(sel)}

\* the values of k_papers and k_ontology a caller passes
ResultLimits == {1, 2}

\* extract_concepts.py: retrieve_hybrid(query, vector_store, graph_retriever,
\* k_papers, k_ontology); the graph retriever is an external library and may
\* return any of the documents of the vector store (ontology_docs + paper_docs)
RetrieveHybrid ==
    /\ pc = "linked"
    /\ LET stored == ontology_docs \o paper_docs
       IN \E sel \in Selections(Len(stored), MaxResults) :
              \E k_papers, k_ontology \in ResultLimits :
                  hybrid' = retrieve_hybrid([i \in 1..Len(sel) |-> stored[sel[i]]],
                                            k_papers, k_ontology)
    /\ pc' = "hybrid"
    /\ UNCHANGED <<classes, properties, g, G, label_map, chunks, ontology_docs,
                   chunk_docs, papers, paper_docs, results, direct_label_hits,
                   synonym_hits, matched_classes, depth_map, roots, scores,
                   queue, pending, calls>>

-----------------------------------------------------------------------------
(* Graph construction and depth resolution over every small ontology.      *)

\* every hierarchy over four classes, every ontology of two classes and a
\* property whose triples may also point at the property or out of the
\* ontology, and the file that declares no class and no property
GraphOntologies ==
    {[store |-> [rel |-> rel, lit |-> {}], classes |-> FourClasses,
      properties |-> {}] :
        rel \in SubsetsUpTo({t \in TriplesOver(FourClasses, {}, FourClasses) :
                                t.p = "subClassOf"}, MaxTriples)}
    \cup
    {[store |-> [rel |-> rel, lit |-> {}], classes |-> {"A", "B"},
      properties |-> PropIds] :
        rel \in SubsetsUpTo(TriplesOver({"A", "B"}, PropIds,
                                        {"A", "B", "P", "X"}), MaxTriples)}
    \cup
    {[store |-> [rel |-> {}, lit |-> {}], classes |-> {}, properties |-> {}]}

InitGraph ==
    \E onto \in GraphOntologies :
        Start(onto.store, onto.classes, onto.properties, <<>>, <<>>)

NextGraph ==
    \/ BuildOntologyGraph
    \/ CreateOntologyDocuments
    \/ ResolveDepth

SpecGraph == InitGraph /\ [][NextGraph]_vars

\* the same ontologies with calculate_ontology_depth run statement by statement
NextDepth ==
    \/ BuildOntologyGraph
    \/ CreateOntologyDocuments
    \/ BeginDepth
    \/ NextRoot
    \/ PopQueue
    \/ QueueEmpty
    \/ ReturnDepth

\* the statements of the two loops of calculate_ontology_depth
DepthLoop == NextRoot \/ PopQueue \/ QueueEmpty \/ ReturnDepth

\* once called, the function keeps executing: a loop that can take a step does
SpecDepth == InitGraph /\ [][NextDepth]_vars /\ WF_vars(DepthLoop)

-----------------------------------------------------------------------------
(* The scoring run of main.py over small ontologies: every ontology of     *)
(* three classes and a property, and every chain of six classes.           *)

\* the chunk of the scored paper: it names the classes A and B by their labels
ScoreChunks == << <<"a", " ", "b">> >>

\* each equivalence is stated once, from the earlier class of the pair
ScoreTriples ==
    {t \in TriplesOver(ThreeClasses, PropIds, ThreeClasses) :
        t.p = "equivalentClass" => <<t.s, t.o>> \in {<<"A", "B">>, <<"A", "C">>, <<"B", "C">>}}

ChainTriples ==
    {[s |-> e[1], p |-> "subClassOf", o |-> e[2]] :
        e \in {<<"B", "A">>, <<"C", "B">>, <<"D", "C">>, <<"E", "D">>, <<"F", "E">>}}

InitScore ==
    \/ \E rel \in SubsetsUpTo(ScoreTriples, MaxTriples) :
           Start([rel |-> rel, lit |-> {}], ThreeClasses, PropIds, ScoreChunks, <<>>)
    \/ \E rel \in SUBSET ChainTriples :
           Start([rel |-> rel, lit |-> {}], ClassIds, {}, ScoreChunks, <<>>)

NextScore ==
    \/ BuildOntologyGraph
    \/ CreateOntologyDocuments
    \/ CreateChunkDocuments
    \/ Retrieve
    \/ IdentifyMatchedConcepts
    \/ CalculateOntologyDepth
    \/ CalculateRelevanceScores
    \/ CalculateTerminologyScores
    \/ Verdict

SpecScore == InitScore /\ [][NextScore]_vars

-----------------------------------------------------------------------------
(* Both entry points, main.py and extract_concepts.py, on one built graph. *)

FrameTriples ==
    {[s |-> "B", p |-> "subClassOf", o |-> "A"],
     [s |-> "B", p |-> "subClassOf", o |-> "B"],
     [s |-> "A", p |-> "equivalentClass", o |-> "B"],
     [s |-> "P", p |-> "domain", o |-> "A"],
     [s |-> "P", p |-> "range", o |-> "A"],
     [s |-> "P", p |-> "range", o |-> "B"]}

InitFrame ==
    \E rel \in SUBSET FrameTriples :
        Start([rel |-> rel, lit |-> {}], {"A", "B"}, PropIds, ScoreChunks,
              PapersOf(ScoreChunks))

NextFrame ==
    \/ BuildOntologyGraph
    \/ CreateOntologyDocuments
    \/ CreateChunkDocuments
    \/ Retrieve
    \/ IdentifyMatchedConcepts
    \/ CalculateOntologyDepth
    \/ CalculateRelevanceScores
    \/ CalculateTerminologyScores
    \/ Verdict
    \/ CreatePaperDocuments
    \/ AddBidirectionalEdges
    \/ RetrieveHybrid

SpecFrame == InitFrame /\ [][NextFrame]_vars

-----------------------------------------------------------------------------
(* generate_verdict over the totals the six sub-scores can add up to.      *)

\* values each sub-score can take: k/5 of 30, thirds of 20, halves of 20,
\* halves of 15, halves of 10, and the four evidence levels
SubScores ==
    [coverage_score : {Rat(6 * k) : k \in 0..5},
     hierarchy_score : {Rat(0), <<20, 3>>, <<40, 3>>, Rat(20)},
     alignment_score : {Rat(0), Rat(10), Rat(20)},
     coherence_score : {Rat(0), <<15, 2>>, Rat(15)},
     consistency_score : {Rat(0), Rat(5), Rat(10)},
     evidence_score : {Rat(0), Rat(2), Rat(4), Rat(5)}]

\* main.py at line 85, the six sub-scores computed
InitVerdict ==
    \E sub \in SubScores :
        /\ pc = "terminology"
        /\ scores = [k \in DOMAIN NoScores |->
                         IF k \in DOMAIN sub THEN sub[k] ELSE NoScores[k]]
        /\ classes = {}
        /\ properties = {}
        /\ g = [rel |-> {}, lit |-> {}]
        /\ G = EmptyGraph
        /\ label_map = <<>>
        /\ ontology_docs = <<>>
        /\ chunks = <<>>
        /\ chunk_docs = <<>>
        /\ papers = <<>>
        /\ paper_docs = <<>>
        /\ results = {}
        /\ direct_label_hits = {}
        /\ synonym_hits = {}
        /\ matched_classes = <<>>
        /\ depth_map = <<>>
        /\ roots = <<>>
        /\ queue = <<>>
        /\ pending = <<>>
        /\ calls = 0
        /\ hybrid = NoHybrid

SpecVerdict == InitVerdict /\ [][Verdict]_vars

-----------------------------------------------------------------------------
(* Mention detection and hit classification over small labelled            *)
(* ontologies: the classes A and B and the property P, whose default       *)
(* labels are their fragments, with a few label and synonym triples.       *)

\* rdfs:label on every concept (an empty label only on A), skos:altLabel on
\* the classes, and one hasExactSynonym, which the code appends to the altLabels
TextTriples ==
    {t \in LitTriples :
        /\ t.s \in {"A", "B", "P"}
        /\ \/ t.p = "label" /\ (t.o = <<>> => t.s = "A")
           \/ t.p = "altLabel" /\ t.s \in {"A", "B"}
           \/ t.p = "hasExactSynonym" /\ t.s = "A" /\ t.o = <<"z">>}

InitText ==
    \E lit \in SubsetsUpTo(TextTriples, MaxLitTriples) :
        \E chunk_texts \in SeqsUpTo(Texts, MaxChunks) :
            Start([rel |-> {}, lit |-> lit], {"A", "B"}, PropIds, chunk_texts,
                  PapersOf(chunk_texts))

NextText ==
    \/ BuildOntologyGraph
    \/ CreateOntologyDocuments
    \/ CreateChunkDocuments
    \/ CreatePaperDocuments
    \/ Retrieve
    \/ IdentifyMatchedConcepts

SpecText == InitText /\ [][NextText]_vars

\* The same runs on an ontology that declares the IRI B both an owl:Class and
\* an owl:ObjectProperty: load_ontology returns it in both sets.
PunnedProperties == PropIds \cup {"B"}

InitPunned ==
    \E lit \in SubsetsUpTo(TextTriples, MaxLitTriples) :
        \E chunk_texts \in SeqsUpTo(Texts, MaxChunks) :
            Start([rel |-> {}, lit |-> lit], {"A", "B"}, PunnedProperties,
                  chunk_texts, PapersOf(chunk_texts))

SpecPunned == InitPunned /\ [][NextText]_vars

-----------------------------------------------------------------------------
(* The paper pipeline of extract_concepts.py: paper documents, their       *)
(* mentioned_by edges on the ontology documents, and hybrid retrieval.     *)

\* B may share the label of A, and A may carry a synonym
PaperTriples ==
    {[s |-> "B", p |-> "label", o |-> <<"a">>],
     [s |-> "A", p |-> "altLabel", o |-> <<"z">>]}

\* a paper record: with or without an id, with or without an abstract
PaperRecords ==
    [id : {"", "p"}, title : {<<>>}, abstract : {<<>>, <<"z">>, <<"A", " ", "z">>}]

InitPapers ==
    \E lit \in SUBSET PaperTriples :
        \E paper_list \in {<<>>} \cup SeqsUpTo(PaperRecords, MaxPapers) :
            Start([rel |-> {}, lit |-> lit], {"A", "B"}, PropIds, <<>>, paper_list)

NextPapers ==
    \/ BuildOntologyGraph
    \/ CreateOntologyDocuments
    \/ CreatePaperDocuments
    \/ AddBidirectionalEdges
    \/ RetrieveHybrid

SpecPapers == InitPapers /\ [][NextPapers]_vars

-----------------------------------------------------------------------------
(* Properties of the built graph and of the depth map.                     *)

NodeSet == Range(G.nodes)

\* a root: a Class with an empty parents list
RootsOf(Gr) ==
    {n \in Range(Gr.nodes) : Gr.type[n] = "Class" /\ Gr.parents[n] = <<>>}

\* hop distances from the roots, level by level
RECURSIVE Levels(_, _, _, _)
Levels(Gr, frontier, seen, d) ==
    IF frontier = {} THEN {}
    ELSE LET next == UNION {Range(Gr.children[n]) : n \in frontier} \ seen
         IN {<<n, d>> : n \in frontier} \cup Levels(Gr, next, seen \cup next, d + 1)

ShortestDistance(Gr) == Levels(Gr, RootsOf(Gr), RootsOf(Gr), 0)

\* C3: after calculate_ontology_depth, depth_map is the shortest-distance
\* function from the roots: its keys are exactly the nodes reachable from a
\* root along children lists, a root maps to 0, every other key to the least
\* number of child hops from any root, and nothing unreachable is a key.
C3_DepthIsShortestDistance ==
    pc = "depth" =>
        /\ DOMAIN depth_map = {e[1] : e \in ShortestDistance(G)}
        /\ \A e \in ShortestDistance(G) : depth_map[e[1]] = e[2]
        /\ \A r \in RootsOf(G) : depth_map[r] = 0
        /\ \A n \in DOMAIN depth_map : depth_map[n] \in Nat

\* a class at depth 1 that a longer path through a parent of depth 1 also reaches
C3_Witness ==
    /\ pc = "depth"
    /\ \E n \in DOMAIN depth_map :
           /\ depth_map[n] = 1
           /\ \E q \in Range(G.parents[n]) :
                  q \in DOMAIN depth_map /\ depth_map[q] = 1
    /\ \E n \in NodeSet : n \notin DOMAIN depth_map

InversePredicate(p) ==
    CASE p = "subClassOf" -> "hasSubClass"
      [] p = "hasSubClass" -> "subClassOf"
      [] p = "equivalentClass" -> "equivalentClass"
      [] p = "domain" -> "domainOf"
      [] p = "domainOf" -> "domain"
      [] p = "range" -> "rangeOf"
      [] p = "rangeOf" -> "range"

ListsMirrored(Gr) ==
    \A a, b \in Ids :
        /\ b \in Range(Gr.parents[a]) <=> a \in Range(Gr.children[b])
        /\ b \in Range(Gr.equivalentClasses[a]) <=> a \in Range(Gr.equivalentClasses[b])
        /\ b \in Range(Gr.domain[a]) <=> a \in Range(Gr.domainOf[b])
        /\ b \in Range(Gr.range[a]) <=> a \in Range(Gr.rangeOf[b])

EdgesMirrored(Gr) ==
    \A e \in Gr.edges : <<e[2], e[1], InversePredicate(e[3])>> \in Gr.edges

\* C4: in every built graph each relation is mirrored by its inverse: the
\* parents/children, equivalentClasses, domain/domainOf and range/rangeOf lists
\* mirror each other, and every directed edge has the edge of the inverse
\* predicate in the opposite direction.
C4_EveryRelationMirrored ==
    pc # "loaded" => ListsMirrored(G) /\ EdgesMirrored(G)

\* the list half of C4 alone, which the build keeps
C4_ListsMirrored ==
    pc # "loaded" => ListsMirrored(G)

RelationLists ==
    {"parents", "children", "equivalentClasses", "domain", "range",
     "domainOf", "rangeOf"}

\* the triples of the store whose object is a node of the graph
WithoutExternal(store, Gr) ==
    [store EXCEPT !.rel = {t \in @ : t.o \in Range(Gr.nodes)}]

\* C5: every identifier in a relation list, and every endpoint of an edge, is
\* a node created as a Class or a Property, and the triples whose object is no
\* such node add nothing: the graph is the one built without them.
C5_NoDanglingReference ==
    pc # "loaded" =>
        /\ NodeSet = classes \cup properties
        /\ \A n \in Ids : \A l \in RelationLists : Range(G[l][n]) \subseteq NodeSet
        /\ \A e \in G.edges : e[1] \in NodeSet /\ e[2] \in NodeSet
        /\ G = build_ontology_graph(WithoutExternal(g, G), classes, properties)

\* a built graph whose store holds a triple pointing out of the ontology
C5_Witness ==
    /\ pc = "built"
    /\ \E t \in g.rel : t.s \in NodeSet /\ t.o \notin NodeSet

-----------------------------------------------------------------------------
(* Properties of the scores.                                               *)

Scored == pc \in {"relevance", "terminology", "done"}

InRange(x, max) == RLe(Rat(0), x) /\ RLe(x, Rat(max))

\* C1: with an empty matched class set the scoring completes without raising:
\* all six sub-scores are 0.0, the total is 0.0 and the verdict "Not Relevant".
C1_EmptyMatchScoresZero ==
    (matched_classes = <<>> /\ pc \in {"UnboundLocalError", "relevance", "terminology", "done"}) =>
        /\ pc # "UnboundLocalError"
        /\ \A k \in {"coverage_score", "hierarchy_score", "alignment_score",
                     "coherence_score", "consistency_score", "evidence_score"} :
               REq(scores[k], Rat(0))
        /\ pc = "done" => REq(scores.total_score, Rat(0)) /\ scores.verdict = "Not Relevant"

\* C2: the total (the six sub-scores summed and capped at 100) lies in
\* [0, 100], and each sub-score lies within its maximum: coverage 30,
\* hierarchy 20, alignment 20, coherence 15, consistency 10, evidence 5.
C2_ScoresWithinBounds ==
    /\ Scored =>
        /\ NoDuplicates(matched_classes)
        /\ InRange(scores.coverage_score, 30)
        /\ InRange(scores.hierarchy_score, 20)
        /\ InRange(scores.alignment_score, 20)
        /\ InRange(scores.coherence_score, 15)
        /\ InRange(scores.consistency_score, 10)
        /\ InRange(scores.evidence_score, 5)
    /\ pc = "done" => InRange(scores.total_score, 100)

\* a finished run that matched more classes than the coverage score rewards
C2_Witness ==
    pc = "done" /\ Len(matched_classes) > 5 /\ REq(scores.coverage_score, Rat(30))

\* the depth of a matched class, a class missing from depth_map counting as 0
DepthOrZero(cid) == IF cid \in DOMAIN depth_map THEN depth_map[cid] ELSE 0

\* C6: the hierarchy-fit score is min(avg_depth/3, 1) * 20, avg_depth being the
\* average over ALL matched classes of their depth (a class missing from
\* depth_map counting as 0), and 0 when no matched class has a known depth.
C6_HierarchyAveragesAllMatched ==
    Scored =>
        REq(scores.hierarchy_score,
            IF \A cid \in Range(matched_classes) : cid \notin DOMAIN depth_map
            THEN Rat(0)
            ELSE RScale(RMin(<<SumSeq([i \in 1..Len(matched_classes) |->
                                          DepthOrZero(matched_classes[i])]),
                               3 * Len(matched_classes)>>, Rat(1)), 20))

\* the entries of domainOf + rangeOf of the i-th matched class whose property
\* has another matched class in its domain or range
AlignedEntries(i) ==
    LET cid == matched_classes[i]
        entries == G.domainOf[cid] \o G.rangeOf[cid]
    IN {k \in 1..Len(entries) :
           \E c \in Range(G.domain[entries[k]] \o G.range[entries[k]]) :
               c \in Range(matched_classes) /\ c # cid}

AlignedEntryCount ==
    SumSeq([i \in 1..Len(matched_classes) |-> Cardinality(AlignedEntries(i))])

\* C7 as stated: each matched class adds at most one to the aligned-relation
\* count, so the count never exceeds the number of matched classes; the score
\* is min(count, 2)/2 * 20.
C7_OnePerClass ==
    (Scored /\ Len(matched_classes) > 1) =>
        /\ \A i \in 1..Len(matched_classes) :
               ClassAlignments(G, matched_classes, matched_classes[i]) <= 1
        /\ AlignedRelations(G, matched_classes) <= Len(matched_classes)
        /\ REq(scores.alignment_score,
               RScale(<<Min(AlignedRelations(G, matched_classes), 2), 2>>, 20))

\* C7 amended: each entry of a matched class's domainOf + rangeOf list adds at
\* most one: a class adds one per entry whose property has another matched
\* class in its domain or range, the count is the number of such entries, and
\* the score is min(count, 2)/2 * 20 (0 with fewer than 2 matched classes).
C7_OnePerPropertyEntry ==
    Scored =>
        IF Len(matched_classes) > 1
        THEN /\ \A i \in 1..Len(matched_classes) :
                    ClassAlignments(G, matched_classes, matched_classes[i])
                        = Cardinality(AlignedEntries(i))
             /\ AlignedRelations(G, matched_classes) = AlignedEntryCount
             /\ REq(scores.alignment_score,
                    RScale(<<Min(AlignedEntryCount, 2), 2>>, 20))
        ELSE REq(scores.alignment_score, Rat(0))

\* a matched class that adds more than one to the count
C7_Witness ==
    /\ Scored
    /\ \E i \in 1..Len(matched_classes) :
           ClassAlignments(G, matched_classes, matched_classes[i]) > 1
    /\ AlignedRelations(G, matched_classes) > Len(matched_classes)

\* the matched classes joined to S by subClassOf or equivalentClass edges
RECURSIVE Connected(_, _)
Connected(M, S) ==
    LET next == S \cup {v \in M : \E u \in S :
                    v \in Range(G.parents[u] \o G.children[u] \o G.equivalentClasses[u])}
    IN IF next = S THEN S ELSE Connected(M, next)

\* connected components of the subgraph induced on the matched classes
InducedComponents ==
    Cardinality({Connected(Range(matched_classes), {u}) : u \in Range(matched_classes)})

\* C8: the component count of the coherence score is the number of connected
\* components of the undirected subgraph induced on the matched classes by
\* subClassOf and equivalentClass edges; the score is 15 for one component and
\* max(0, 15 * (1 - (components - 1)/|matched_classes|)) otherwise.
C8_ComponentsOfInducedSubgraph ==
    Scored =>
        /\ Components(G, matched_classes).comp_count = InducedComponents
        /\ REq(scores.coherence_score,
               IF InducedComponents = 1 THEN Rat(15)
               ELSE RMax(Rat(0), <<15 * (Len(matched_classes) - (InducedComponents - 1)),
                                   Len(matched_classes)>>))

-----------------------------------------------------------------------------
(* Properties of the mention lists and of the hit classification.          *)

Concepts == {n \in NodeSet : G.type[n] \in {"Class", "Property"}}

\* word occurs in text as a case-insensitive whole word: \bword\b finds a match
OccursIn(word, text) == WholeWordSearch(LowerStr(word), LowerStr(text))

\* the same for a label, which both matchers skip when it is empty
LabelOccursIn(label, text) == label # <<>> /\ OccursIn(label, text)

\* the label of the concept, or one of its synonyms, occurs in the text
LabelOrSynonymOccurs(n, text) ==
    \/ OccursIn(G.label[n], text)
    \/ \E k \in 1..Len(G.synonyms[n]) : OccursIn(G.synonyms[n][k], text)

\* C9 (as stated): for both matchers and every graph, also one where two
\* concepts share a lower-cased label or synonym, a concept is in the mentions
\* of a text unit iff its label or one of its synonyms occurs in the text as
\* a whole word, and no id is listed twice.
C9_MentionIffLabelOrSynonymOccurs ==
    /\ \A i \in 1..Len(chunk_docs) :
          /\ NoDuplicates(chunk_docs[i].mentions)
          /\ \A n \in Concepts :
                n \in Range(chunk_docs[i].mentions)
                    <=> LabelOrSynonymOccurs(n, chunks[i])
    /\ \A i \in 1..Len(paper_docs) :
          /\ NoDuplicates(paper_docs[i].mentions)
          /\ \A n \in Concepts :
                n \in Range(paper_docs[i].mentions)
                    <=> LabelOrSynonymOccurs(n, papers[i].abstract)

\* position of node n in the iteration order of G.nodes
NodeIndex(n) == CHOOSE i \in 1..Len(G.nodes) : G.nodes[i] = n

\* n is the last concept, in node order, whose lower-cased label is key
OwnsLabel(n, key) ==
    /\ LowerStr(G.label[n]) = key
    /\ \A m \in Concepts :
          LowerStr(G.label[m]) = key => NodeIndex(m) <= NodeIndex(n)

HasSynonym(n, key) ==
    \E k \in 1..Len(G.synonyms[n]) : LowerStr(G.synonyms[n][k]) = key

\* n is the last concept, in node order, with a synonym whose lower case is key
OwnsSynonym(n, key) ==
    /\ HasSynonym(n, key)
    /\ \A m \in Concepts : HasSynonym(m, key) => NodeIndex(m) <= NodeIndex(n)

\* the lower-cased labels and synonyms of the graph
Keys ==
    {LowerStr(G.label[n]) : n \in Concepts}
        \cup UNION {{LowerStr(G.synonyms[n][k]) : k \in 1..Len(G.synonyms[n])} :
                        n \in Concepts}

\* C9 (amended): create_chunk_documents lists a concept iff its non-empty
\* label or one of its synonyms is found by the whole-word search in the
\* lower-cased chunk (an empty synonym is found in every text that holds a
\* word character);
\* create_paper_documents lists a concept iff some non-empty lower-cased
\* label or synonym is found in the text and the concept is the last one, in
\* node order, to carry it as label, respectively as synonym; no id is listed
\* twice by either matcher.
C9_MentionsFollowTheIndexes ==
    /\ \A i \in 1..Len(chunk_docs) :
          /\ NoDuplicates(chunk_docs[i].mentions)
          /\ \A n \in Concepts :
                n \in Range(chunk_docs[i].mentions)
                    <=> \/ LabelOccursIn(G.label[n], chunks[i])
                        \/ \E k \in 1..Len(G.synonyms[n]) :
                               OccursIn(G.synonyms[n][k], chunks[i])
    /\ \A i \in 1..Len(paper_docs) :
          /\ NoDuplicates(paper_docs[i].mentions)
          /\ \A n \in Concepts :
                n \in Range(paper_docs[i].mentions)
                    <=> \E key \in Keys \ {<<>>} :
                            /\ OccursIn(key, papers[i].abstract)
                            /\ OwnsLabel(n, key) \/ OwnsSynonym(n, key)

\* a paper whose text holds a label shared by two concepts: the later concept
\* is listed, the earlier one is not
C9_Witness ==
    /\ pc = "papers"
    /\ \E i \in 1..Len(paper_docs) : \E n, m \in Concepts :
          /\ n # m
          /\ LowerStr(G.label[n]) = LowerStr(G.label[m])
          /\ OccursIn(G.label[n], papers[i].abstract)
          /\ m \in Range(paper_docs[i].mentions)
          /\ n \notin Range(paper_docs[i].mentions)

\* the retrieved concepts that some chunk mentions
RetrievedAndMentioned ==
    {n \in Concepts \cap results :
        \E i \in 1..Len(chunk_docs) : n \in Range(chunk_docs[i].mentions)}

\* C10 (as stated): a retrieved concept whose label occurs as a whole word in
\* any chunk that mentions it is a label-hit and not a synonym-hit, also when
\* a synonym of it matches in another chunk.
C10_LabelAnywhereIsLabelHit ==
    pc = "identified" =>
        \A n \in RetrievedAndMentioned :
            (\E i \in 1..Len(chunk_docs) :
                /\ n \in Range(chunk_docs[i].mentions)
                /\ OccursIn(G.label[n], chunks[i]))
            => n \in direct_label_hits /\ n \notin synonym_hits

\* chunk i is the first chunk, in document order, that mentions n
IsFirstMention(n, i) ==
    /\ n \in Range(chunk_docs[i].mentions)
    /\ \A j \in 1..(i - 1) : n \notin Range(chunk_docs[j].mentions)

\* C10 (amended): a retrieved concept mentioned by the chunks is a label-hit
\* iff its non-empty label occurs as a whole word in the first chunk, in
\* document order, that mentions it, and a synonym-hit otherwise; it is never
\* both, and
\* a concept that is not retrieved or not mentioned is neither.
C10_FirstMentioningChunkDecides ==
    pc = "identified" =>
        /\ direct_label_hits \cup synonym_hits = RetrievedAndMentioned
        /\ direct_label_hits \cap synonym_hits = {}
        /\ \A n \in RetrievedAndMentioned : \A i \in 1..Len(chunk_docs) :
              IsFirstMention(n, i) =>
                  (n \in direct_label_hits <=> LabelOccursIn(G.label[n], chunks[i]))

\* a concept found by a synonym in the first chunk and by its label in a later
\* one is classified as a synonym-hit
C10_Witness ==
    /\ pc = "identified"
    /\ \E n \in synonym_hits : \E i, j \in 1..Len(chunk_docs) :
          /\ IsFirstMention(n, i)
          /\ i < j
          /\ n \in Range(chunk_docs[j].mentions)
          /\ OccursIn(G.label[n], chunks[j])
          /\ ~OccursIn(G.label[n], chunks[i])
\* the chunks, by position, whose mentions hold n
MentioningChunks(n) ==
    {i \in 1..Len(chunk_docs) : n \in Range(chunk_docs[i].mentions)}

\* in how many of the two returned sets n lies
HitClasses(n) ==
    (IF n \in direct_label_hits THEN 1 ELSE 0)
        + (IF n \in synonym_hits THEN 1 ELSE 0)

\* C11: identify_matched_concepts puts every retrieved concept that some chunk
\* mentions into exactly one of the two sets and every other concept into
\* neither, and the first chunk, in document order, whose mentions hold the
\* concept decides alone: label-hit iff the label occurs in it as a whole word.
C11_ExactlyOneClassByFirstChunk ==
    pc = "identified" =>
        /\ direct_label_hits \cup synonym_hits \subseteq Concepts
        /\ \A n \in Concepts :
              IF n \in results /\ MentioningChunks(n) # {}
              THEN /\ HitClasses(n) = 1
                   /\ LET first == CHOOSE i \in MentioningChunks(n) :
                                       \A j \in MentioningChunks(n) : i <= j
                      IN n \in direct_label_hits
                             <=> OccursIn(G.label[n], chunks[first])
              ELSE HitClasses(n) = 0

\* a label-hit decided by the first chunk although a later chunk mentions the
\* concept by a synonym only, next to a synonym-hit and an unmentioned concept
C11_Witness ==
    /\ pc = "identified"
    /\ synonym_hits # {}
    /\ \E n \in results : MentioningChunks(n) = {}
    /\ \E n \in direct_label_hits : \E j \in MentioningChunks(n) :
          ~OccursIn(G.label[n], chunks[j])
-----------------------------------------------------------------------------
(* Properties of the mentioned_by edges and of hybrid retrieval.           *)

\* how often x occurs in the list lst
Occurrences(x, lst) == Cardinality({k \in 1..Len(lst) : lst[k] = x})

\* the paper documents, by position, that carry the id pid and mention cid
MentioningPapers(pid, cid) ==
    {i \in 1..Len(paper_docs) :
        paper_docs[i].id = pid /\ cid \in Range(paper_docs[i].mentions)}

PaperDocIds == {paper_docs[i].id : i \in 1..Len(paper_docs)}

\* C12: after add_bidirectional_edges every ontology document has a
\* mentioned_by list, empty when no paper mentions the concept, and a paper id
\* is in it iff that paper mentions the concept, once per mentioning paper
\* document; it holds no other entry.
C12_MentionedByInvertsMentions ==
    pc = "linked" =>
        \A d \in 1..Len(ontology_docs) :
            /\ "mentioned_by" \in DOMAIN ontology_docs[d]
            /\ Range(ontology_docs[d].mentioned_by) \subseteq PaperDocIds
            /\ \A pid \in PaperDocIds :
                  Occurrences(pid, ontology_docs[d].mentioned_by)
                      = Cardinality(MentioningPapers(pid, ontology_docs[d].id))

\* one concept nobody mentions and one that two paper documents of the same
\* id mention
C12_Witness ==
    /\ pc = "linked"
    /\ \E d \in 1..Len(ontology_docs) : ontology_docs[d].mentioned_by = <<>>
    /\ \E d \in 1..Len(ontology_docs) : \E pid \in PaperDocIds :
          Occurrences(pid, ontology_docs[d].mentioned_by) = 2

\* C13: applying add_bidirectional_edges again to the documents it returned
\* and the same paper documents leaves every mentioned_by list as it was.
C13_Idempotent ==
    [][(pc = "linked" /\ calls' = calls + 1) => ontology_docs' = ontology_docs]_vars

\* a second application has happened on documents with a non-empty list
C13_Witness ==
    /\ pc = "linked"
    /\ calls = 2
    /\ \E d \in 1..Len(ontology_docs) : ontology_docs[d].mentioned_by # <<>>

\* the documents of lst that are papers, respectively ontology concepts
PapersAmong(lst) == SelectSeq(lst, LAMBDA doc : doc.type = "research_paper")
ConceptsAmong(lst) ==
    SelectSeq(lst, LAMBDA doc : doc.type \in {"Class", "Property"})

\* C20: in the paper pipeline retrieve_hybrid returns both kinds: the first
\* k_papers papers and the first k_ontology ontology concepts of the
\* retriever's results, in result order, the concepts non-empty whenever the
\* retriever returned one, and all_docs is the papers followed by the concepts.
C20_BothKindsReturned ==
    pc = "hybrid" =>
        /\ hybrid.paper_results
               = Take(PapersAmong(hybrid.all_results), hybrid.k_papers)
        /\ hybrid.ontology_results
               = Take(ConceptsAmong(hybrid.all_results), hybrid.k_ontology)
        /\ ConceptsAmong(hybrid.all_results) # <<>>
               => hybrid.ontology_results # <<>>
        /\ hybrid.all_docs = hybrid.paper_results \o hybrid.ontology_results
-----------------------------------------------------------------------------
(* Termination of the depth search.                                        *)

\* during the search a stored depth stays stored, stays at least 0 and never
\* grows
DepthsOnlyFall ==
    pc \in {"for_root", "while_queue"} =>
        \A c \in DOMAIN depth_map :
            /\ c \in DOMAIN depth_map'
            /\ 0 <= depth_map'[c]
            /\ depth_map'[c] <= depth_map[c]

\* a class enters the queue only with a depth that is new or strictly lower
EnqueuedOnlyWhenLowered ==
    (pc = "while_queue" /\ queue # <<>>) =>
        \A k \in Len(queue)..Len(queue') :
            LET c == queue'[k]
            IN c \notin DOMAIN depth_map \/ depth_map'[c] < depth_map[c]

\* C14: calculate_ontology_depth terminates on every class graph, also with
\* cycles reachable from a root, self-loops and classes under several roots:
\* stored depths never grow and stay at least 0, a class is queued only when
\* its depth is new or strictly lowered, and the call returns.
C14_DepthSearchTerminates ==
    /\ [][DepthsOnlyFall /\ EnqueuedOnlyWhenLowered]_vars
    /\ (pc = "for_root") ~> (pc = "depth")

\* the search has returned on a graph with a two-class cycle and a self-loop
\* below a root
C14_Witness ==
    /\ pc = "depth"
    /\ \E a, b \in DOMAIN depth_map :
          /\ a # b
          /\ b \in Range(G.children[a])
          /\ a \in Range(G.children[b])
    /\ calculate_ontology_depth(G, label_map) = depth_map
-----------------------------------------------------------------------------
(* Frame of the graph, the missing load error, verdict and coverage.       *)

\* C15: once build_ontology_graph has returned, no later operation changes the
\* graph: nodes, labels, types, synonyms, relation lists and edges stay as
\* built, and depths, visited sets and mentions live outside it.
C15_GraphUnchangedAfterBuild ==
    [][pc # "loaded" => G' = G]_vars

\* a scored run on a graph that has relations
C15_Witness ==
    /\ pc = "done"
    /\ G.edges # {}
    /\ G = build_ontology_graph(g, classes, properties)

\* C16: when the ontology yields no Class and no Property subject, the run
\* fails with OntologyLoadError before any graph is built.
C16_EmptyOntologyFails ==
    (classes = {} /\ properties = {}) => pc \in {"loaded", "OntologyLoadError"}

\* C17: "Relevant" iff total >= 70, "Partially Relevant" iff 30 <= total < 70,
\* "Not Relevant" iff total < 30.
C17_VerdictThresholds ==
    pc = "done" =>
        LET total == scores.total_score
        IN /\ scores.verdict = "Relevant" <=> RLe(Rat(70), total)
           /\ scores.verdict = "Partially Relevant"
                  <=> RLe(Rat(30), total) /\ RLt(total, Rat(70))
           /\ scores.verdict = "Not Relevant" <=> RLt(total, Rat(30))

\* a total of exactly 70 is judged Relevant
C17_Witness ==
    /\ pc = "done"
    /\ REq(scores.total_score, Rat(70))
    /\ scores.verdict = "Relevant"

\* C18: the coverage score is min(n, 5)/5 * 30 for n matched classes: it
\* never falls as n grows, rises strictly up to 5 and stays at 30 from 5 on.
C18_CoverageCappedAtFive ==
    Scored =>
        LET n == Len(matched_classes)
            coverage(k) == CoverageScore(SubSeq(matched_classes, 1, k))
        IN /\ REq(scores.coverage_score, <<Min(n, 5) * 30, 5>>)
           /\ scores.coverage_score = coverage(n)
           /\ \A k \in 0..(n - 1) :
                 /\ RLe(coverage(k), coverage(k + 1))
                 /\ k < 5 => RLt(coverage(k), coverage(k + 1))
                 /\ k >= 5 => REq(coverage(k + 1), Rat(30))

\* six matched classes score 30
C18_Witness ==
    /\ Scored
    /\ Len(matched_classes) = 6
    /\ REq(scores.coverage_score, Rat(30))

-----------------------------------------------------------------------------
(* The synonyms list of a Class node.                                      *)

\* Index of the first occurrence of x in the list lst, 0 when absent.
FirstIndex(lst, x) ==
    IF x \in Range(lst) THEN CHOOSE i \in 1..Len(lst) :
                                 lst[i] = x /\ \A j \in 1..(i - 1) : lst[j] # x
    ELSE 0

\* C21: the synonyms list of every Class node holds each synonym literal at
\* most once, also when the literal is both an altLabel and a hasExactSynonym
\* of the class, and the altLabel values stand before the hasExactSynonym
\* values.
C21_SynonymsListedOnce ==
    pc # "loaded" =>
        \A cid \in classes :
            G.type[cid] = "Class" =>
                LET synonyms == G.synonyms[cid]
                    alt == Range(LiteralsOf(g, cid, "altLabel"))
                    exact == Range(LiteralsOf(g, cid, "hasExactSynonym"))
                IN /\ NoDuplicates(synonyms)
                   /\ Range(synonyms) = alt \cup exact
                   /\ \A a \in alt : \A e \in exact \ alt :
                          FirstIndex(synonyms, a) < FirstIndex(synonyms, e)

-----------------------------------------------------------------------------
(* The scores as a function of the matched collection, not of its order.   *)

\* every listing of the set S
RECURSIVE Orderings(_)
Orderings(S) ==
    IF S = {} THEN {<<>>}
    ELSE UNION {{<<x>> \o rest : rest \in Orderings(S \ {x})} : x \in S}

\* the scores of a run that lists the matched classes as `matched` and whose
\* set(matched_classes) iterates in the order `order`
ScoresIn(matched, order) ==
    LET comps == ComponentsIn(G, matched, order)
        sc == [coverage_score |-> CoverageScore(matched),
               hierarchy_score |-> HierarchyScore(matched, depth_map),
               alignment_score |-> AlignmentScore(G, matched),
               coherence_score |-> CoherenceFrom(matched, comps.comp_count),
               consistency_score |->
                   ConsistencyScore(matched, direct_label_hits, synonym_hits),
               evidence_score |->
                   EvidenceScore(matched, direct_label_hits, synonym_hits),
               visited |-> comps.visited]
    IN [sc_part \in DOMAIN sc \cup {"total_score", "verdict"} |->
           IF sc_part = "total_score" THEN TotalScore(sc)
           ELSE IF sc_part = "verdict" THEN generate_verdict(TotalScore(sc))
           ELSE sc[sc_part]]

SameScores(sc) ==
    /\ \A k \in {"coverage_score", "hierarchy_score", "alignment_score",
                 "coherence_score", "consistency_score", "evidence_score",
                 "total_score"} : REq(sc[k], scores[k])
    /\ sc.visited = scores.visited
    /\ sc.verdict = scores.verdict

\* C22: for a fixed graph, depth map and hit sets, every ordering of the same
\* matched classes gives the same six scores and the same visited set, hence
\* the same total and verdict.
C22_OrderIndependent ==
    pc = "done" =>
        LET listings == Orderings(Range(matched_classes))
        IN /\ \A matched \in listings : SameScores(ScoresIn(matched, matched))
           /\ \A order \in listings :
                  SameScores(ScoresIn(matched_classes, order))

\* two linked matched classes at different depths and a third one apart:
\* the traversal's start and the order of the depth sum could matter
C22_Witness ==
    /\ pc = "done"
    /\ Len(matched_classes) >= 3
    /\ \E c, d \in Range(matched_classes) :
           /\ d \in Range(G.parents[c])
           /\ c \in DOMAIN depth_map /\ d \in DOMAIN depth_map
           /\ depth_map[c] # depth_map[d]
    /\ Components(G, matched_classes).comp_count > 1

-----------------------------------------------------------------------------
(* The alignment count on graphs whose property lists mirror each other.   *)

\* domain/domainOf and range/rangeOf list each other
PropertyListsMirrored(Gr) ==
    \A a, b \in Ids :
        /\ b \in Range(Gr.domain[a]) <=> a \in Range(Gr.domainOf[b])
        /\ b \in Range(Gr.range[a]) <=> a \in Range(Gr.rangeOf[b])

\* C23: on a graph whose domain/domainOf and range/rangeOf lists mirror each
\* other the count of aligned relations is never exactly 1, so the alignment
\* score is 0 or 20 and never 10.
C23_AlignmentNeverHalf ==
    (Scored /\ PropertyListsMirrored(G)) =>
        /\ AlignedRelations(G, matched_classes) # 1
        /\ \/ REq(scores.alignment_score, Rat(0))
           \/ REq(scores.alignment_score, Rat(20))
        /\ ~REq(scores.alignment_score, Rat(10))

\* a property with one matched class as its domain and another as its range:
\* each of the two counts the other
C23_Witness ==
    /\ Scored
    /\ PropertyListsMirrored(G)
    /\ \E prop_id \in properties : \E c, d \in Range(matched_classes) :
           /\ c # d
           /\ G.domain[prop_id] = <<c>>
           /\ G.range[prop_id] = <<d>>
    /\ AlignedRelations(G, matched_classes) = 2
    /\ REq(scores.alignment_score, Rat(20))

-----------------------------------------------------------------------------
(* The coherence score of a non-empty match.                               *)

\* C24: for every non-empty duplicate-free matched set the coherence score is
\* strictly positive: there are at most as many components as matched
\* classes, so 15 * (1 - (components - 1)/|matched|) is at least 15/|matched|
\* and the floor max(0.0, ...) is never the value taken.
C24_CoherencePositive ==
    (Scored /\ Len(matched_classes) > 0 /\ NoDuplicates(matched_classes)) =>
        LET num_matched == Len(matched_classes)
            comp_count == Components(G, matched_classes).comp_count
        IN /\ comp_count <= num_matched
           /\ RLt(Rat(0), <<15 * (num_matched - (comp_count - 1)), num_matched>>)
           /\ RLe(<<15, num_matched>>, scores.coherence_score)
           /\ RLt(Rat(0), scores.coherence_score)

\* six matched classes without any link between them: six components and the
\* lowest score, 15/6
C24_Witness ==
    /\ Scored
    /\ Len(matched_classes) = 6
    /\ NoDuplicates(matched_classes)
    /\ Components(G, matched_classes).comp_count = 6
    /\ REq(scores.coherence_score, <<15, 6>>)

-----------------------------------------------------------------------------
(* The search root by root against the search from all roots at once.      *)

\* the search started from all roots at once: every root at depth 0 and in
\* the queue, in the order rts, then the same relaxation of the children
MultiSourceDepth(Gr, rts) ==
    DrainQueue(Gr, [dm |-> [r \in Range(rts) |-> 0], queue |-> rts])

\* the depth_map of the search from the first root of rts alone
FirstRootDepth(Gr, rts) == DepthFromRoots(Gr, <<Head(rts)>>, <<>>)

\* C25: the search run root by root on one shared depth_map gives, on every
\* class graph and for every order of the roots, exactly the depth_map of the
\* search started from all roots simultaneously.
C25_RootByRootIsMultiSource ==
    pc = "depth" =>
        \A rts \in Orderings(Range(roots)) :
            /\ DepthFromRoots(G, rts, <<>>) = depth_map
            /\ MultiSourceDepth(G, rts) = depth_map

\* two roots and a class nearer to the second: the search from the first
\* root alone stores a depth that the second root's search lowers
C25_Witness ==
    /\ pc = "depth"
    /\ Len(roots) >= 2
    /\ \E n \in NodeSet :
           /\ n \in DOMAIN FirstRootDepth(G, roots)
           /\ FirstRootDepth(G, roots)[n] > depth_map[n]

-----------------------------------------------------------------------------
(* Synonym-hits in the run of main.py, and the row print_top_matches       *)
(* prints for them.                                                        *)

\* the chunk that classified n: the first one whose mentions hold it
ClassifyingChunk(n) == chunk_docs[FirstMentioning(n, chunk_docs)]

\* G.nodes[cid].get("synonyms", [label])[0] of a synonym-hit row raises
\* IndexError on an empty list
FirstSynonymRaises(cid) ==
    /\ cid \in DOMAIN label_map
    /\ G.type[cid] = "Class"
    /\ cid \notin direct_label_hits
    /\ cid \in synonym_hits
    /\ G.synonyms[cid] = <<>>

\* C26: in the run of main.py every Class among the synonym-hits has a
\* non-empty synonyms list with a synonym that occurs as a whole word in the
\* chunk that classified it, every classified Property is a label-hit, and
\* the first-synonym lookup of print_top_matches never meets an empty list.
C26_SynonymHitsHaveSynonym ==
    pc = "identified" =>
        /\ \A cid \in synonym_hits :
               G.type[cid] = "Class" =>
                   /\ G.synonyms[cid] # <<>>
                   /\ \E k \in 1..Len(G.synonyms[cid]) :
                          OccursIn(G.synonyms[cid][k],
                                   ClassifyingChunk(cid).page_content)
        /\ \A cid \in direct_label_hits \cup synonym_hits :
               G.type[cid] = "Property" => cid \in direct_label_hits
        /\ \A cid \in NodeSet : ~FirstSynonymRaises(cid)

-----------------------------------------------------------------------------
(* The return of create_paper_documents.                                   *)

\* the positions of the records that have a title or an abstract
KeptPapers ==
    SelectSeq([i \in 1..Len(papers) |-> i], LAMBDA i : ~PaperSkipped(papers[i]))

\* C27: create_paper_documents returns normally for every list of paper
\* records, the empty list and the lists whose records are all skipped
\* included, with exactly one document, in order, per record that has a
\* non-empty title or abstract.
C27_PaperDocumentsReturned ==
    pc \notin {"loaded", "built", "documents"} =>
        /\ pc # "ZeroDivisionError"
        /\ Len(paper_docs) = Len(KeptPapers)
        /\ \A k \in 1..Len(paper_docs) :
               paper_docs[k].id
                   = "paper_" \o PaperId(papers[KeptPapers[k]], KeptPapers[k])

=============================================================================
